---- MODULE Spec2Model ----
(***************************************************************************)
(* The background job queue of the markdown_load extension                 *)
(* (src/extension/service_worker.js): a persisted {queue, ready} document  *)
(* in chrome.storage.local, five message handlers that read, modify and    *)
(* write it, and the processQueue drain loop guarded by the in-memory flag *)
(* processingQueue.                                                        *)
(*                                                                         *)
(* JavaScript runs one continuation at a time; a handler is suspended only *)
(* at an await.  One action of this module is one continuation: what runs  *)
(* between two awaits.  A getState() is served when its continuation runs, *)
(* a setState() lands when its continuation runs.                          *)
(***************************************************************************)
EXTENDS Integers, Sequences, FiniteSets, TLC

VARIABLES
    storage,          \* chrome.storage.local[STATE_KEY]: [queue, ready]
    processingQueue,  \* the in-memory drain guard
    nextId,           \* createId(): the next fresh id
    tasks,            \* message handlers suspended at an await
    drains,           \* processQueue invocations inside the while loop
    tails,            \* processQueue invocations awaiting getState() in finally
    startups,         \* onInstalled / onStartup listeners fired since the worker started,
                      \* Serving once the worker has received a message
    lastResp,         \* the sendResponse payload of the step just taken
    ops,              \* messages and restarts so far
    live,             \* history: ids enqueued and not removed / delivered / discarded
    subs,             \* history: submissions of an id since its enqueue or last retry
    handed,           \* history: artifacts chrome.downloads has taken, per id
    deliveredOK,      \* history: ids whose downloadReadyItem has returned
    redelivered,      \* history: ids found by a downloadReadyItem started after one returned
    pendOrder,        \* history: ids in the order they became pending
    sel,              \* history: the drain's last selection
    atRestart,        \* history: ids persisted as processing at the last restart
    issued,           \* history: how often enqueueItem has returned each id
    removed,          \* history: ids whose removeQueueItem has returned
    succeeded,        \* history: ids whose conversion request returned a non-empty artifact
    poll,             \* the status poller of one submitted job
    reply,            \* a non-ok response and the Error built from it
    popup             \* the popup of one tab: its click handlers and its queue button

vars == <<storage, processingQueue, nextId, tasks, drains, tails, startups,
          lastResp, ops, live, subs, handed, deliveredOK, redelivered, pendOrder,
          sel, atRestart, issued, removed, succeeded, poll, reply, popup>>

----------------------------------------------------------------------------
(* Bounds of the model *)

MaxItems == 2       \* items: those persisted at the start and those enqueue creates
MaxTasks == 2       \* message handlers in flight at once
MaxDrains == 2      \* slots for processQueue invocations inside the loop
MaxTails == 1       \* processQueue invocations in their finally block at once
MaxCount == 2       \* history counters saturate here
MaxOps == 2         \* messages and restarts in one run

NumStartListeners == 2
Serving == NumStartListeners + 1

Ids == 1..MaxItems
TaskIds == 1..MaxTasks
DrainIds == 1..MaxDrains

Urls == {"", "u1"}
Filenames == {"a.md"}
NoError == "none"
Undefined == "undefined"

\* contentTypes: the descriptors the popup chooses from, and their endpoints
ContentTypes == {"twitter", "substack"}
EndpointOf(contentType) ==
    IF contentType = "twitter" THEN "/convert-twitter" ELSE "/convert-substack"

\* the descriptor whose regex matches the url of the active tab
ContentTypeFor(url) == IF url = "u1" THEN "twitter" ELSE "substack"
SessionCookies == [auth_token |-> "a", ct0 |-> "c"]
FetchResults == {[ok |-> TRUE, body |-> "md"], [ok |-> FALSE, body |-> "HTTP 500"]}
\* a 200 response whose body is empty: response.text() resolves to ""
EmptyResults == {[ok |-> TRUE, body |-> ""]}
DownloadResults == {"ok", "lastError"}
StorageError == "storage error"
Handlers == {"enqueue", "retry", "removeQueue", "downloadReady", "removeReady"}

----------------------------------------------------------------------------
(* Helpers *)

EmptyState == [queue |-> <<>>, ready |-> <<>>]

\* Array.prototype.findIndex: the first matching index, 0 for -1
FindIndex(seq, P(_)) ==
    IF \E i \in 1..Len(seq) : P(seq[i])
    THEN CHOOSE i \in 1..Len(seq) : P(seq[i]) /\ \A j \in 1..(i - 1) : ~P(seq[j])
    ELSE 0

\* Array.prototype.splice(i, 1)
Splice(seq, i) == SubSeq(seq, 1, i - 1) \o SubSeq(seq, i + 1, Len(seq))

\* a lookup that falls back to the last entry when no id matches
IndexOrLast(seq, id) ==
    IF \E i \in 1..Len(seq) : seq[i].id = id
    THEN CHOOSE i \in 1..Len(seq) : seq[i].id = id /\ \A j \in 1..(i - 1) : seq[j].id # id
    ELSE Len(seq)

IndexOfId(seq, id) == LET Match(e) == e.id = id IN FindIndex(seq, Match)

IsPending(item) == item.status = "pending"

FirstPending(queue) == FindIndex(queue, IsPending)

HasPending(st) == \E i \in 1..Len(st.queue) : IsPending(st.queue[i])

QueueIds(st) == {st.queue[i].id : i \in 1..Len(st.queue)}
ReadyIds(st) == {st.ready[i].id : i \in 1..Len(st.ready)}
PendingIds(st) == {st.queue[i].id : i \in {j \in 1..Len(st.queue) : IsPending(st.queue[j])}}
ProcessingIds(st) ==
    {st.queue[i].id : i \in {j \in 1..Len(st.queue) : st.queue[j].status = "processing"}}

Bump(f, id) == [f EXCEPT ![id] = IF @ < MaxCount THEN @ + 1 ELSE @]

\* position of id in a sequence of ids, 0 when absent
Pos(seq, id) == LET Match(e) == e = id IN FindIndex(seq, Match)
Without(seq, id) == SelectSeq(seq, LAMBDA e : e # id)

IdleTask == [op |-> "idle", arg |-> 0, pc |-> "idle", snap |-> EmptyState, idx |-> 0]
NoItem ==
    [id |-> 0, url |-> "", filename |-> "", kind |-> Undefined, status |-> "none",
     error |-> NoError]
IdleDrain ==
    [pc |-> "idle", item |-> NoItem, snap |-> EmptyState, error |-> NoError, endpoint |-> ""]
NoSel == [id |-> 0, earlier |-> {}, older |-> {}]
NoResp == [op |-> "none", arg |-> 0, res |-> "none"]

\* what an earlier life of the worker can have left in chrome.storage.local:
\* nothing, an item whose submission was rejected, or a finished conversion
PersistedDocs ==
    {EmptyState,
     [queue |-> <<[id |-> 1, url |-> "u1", filename |-> "a.md", kind |-> Undefined,
                   status |-> "error",
                   error |-> "HTTP 500"]>>,
      ready |-> <<>>],
     [queue |-> <<>>,
      ready |-> <<[id |-> 1, url |-> "u1", filename |-> "a.md", markdown |-> "md"]>>]}

----------------------------------------------------------------------------
(* processQueue(): the guard and the start of a drain *)

LowestIdleDrain(ds) ==
    IF \E d \in DrainIds : ds[d].pc = "idle"
    THEN CHOOSE d \in DrainIds : ds[d].pc = "idle" /\ \A e \in 1..(d - 1) : ds[e].pc # "idle"
    ELSE 0

StartDrain(ds) ==
    IF LowestIdleDrain(ds) = 0 THEN ds
    ELSE [ds EXCEPT ![LowestIdleDrain(ds)] = [IdleDrain EXCEPT !.pc = "loop"]]

\* a processQueue() that ignores the processingQueue guard
ProcessQueueNoGuard(flag, ds) == [flag |-> TRUE, drains |-> StartDrain(ds)]

\* if (processingQueue) return; processingQueue = true; ... await getState()
ProcessQueueCall(flag, ds) ==
    IF flag THEN [flag |-> flag, drains |-> ds]
    ELSE [flag |-> TRUE, drains |-> StartDrain(ds)]

\* a drain that ends without a finally block
KeepGuard(flag) == flag

\* finally { processingQueue = false; ... }
Release(flag) == FALSE

\* the model has a free slot for the drain the call would start
CanCall(ds) == LowestIdleDrain(ds) # 0

LowestIdleTask ==
    IF \E t \in TaskIds : tasks[t].op = "idle"
    THEN CHOOSE t \in TaskIds : tasks[t].op = "idle" /\ \A u \in 1..(t - 1) : tasks[u].op # "idle"
    ELSE 0

Free(t) == t = LowestIdleTask

\* a message is received; the listeners of the worker's start have fired before it
Receive == ops < MaxOps /\ ops' = ops + 1 /\ startups' = Serving /\ atRestart' = {}

life == <<ops, startups, atRestart>>

\* a continuation that receives nothing and responds to nothing
Silent == lastResp' = NoResp /\ UNCHANGED life

hist == <<live, subs, handed, deliveredOK, redelivered, pendOrder, sel, issued, removed,
         succeeded>>
drainVars == <<processingQueue, drains, tails>>

----------------------------------------------------------------------------
(* enqueueItem *)

\* state.queue.unshift(...) instead of push
PushFront(queue, item) == <<item>> \o queue

\* state.queue.push(item)
Push(queue, item) == Append(queue, item)

\* a createId() that hands out the same id again
CreateIdRepeat(counter) == 1

\* crypto.randomUUID(): a value no earlier call has returned
CreateId(counter) == counter

\* the enqueue message prepareUI sends
EnqueueMessage(url, filename) ==
    [type |-> "enqueue", url |-> url, filename |-> filename,
     contentType |-> ContentTypeFor(url), cookies |-> SessionCookies]

\* a property of a message, undefined when the message has none of that name
Field(message, name) == IF name \in DOMAIN message THEN message[name] ELSE Undefined

\* enqueueItem({ url, filename, kind }): { id, url, filename, kind, status: 'pending' }
NewItem(id, message) ==
    [id |-> id, url |-> Field(message, "url"), filename |-> Field(message, "filename"),
     kind |-> Field(message, "kind"), status |-> "pending", error |-> NoError]

\* a validation that lets every url through
MissingUrlNever(url) == FALSE

\* if (!url)
MissingUrl(url) == url = ""

\* message received: validation, getState(), createId(), push, setState() issued
Enqueue(t, url, filename) ==
    /\ Free(t)
    /\ IF MissingUrl(url)
       THEN /\ lastResp' = [op |-> "enqueue", arg |-> 0, res |-> "Missing URL"]
            /\ Receive
            /\ UNCHANGED <<nextId, tasks>>
       ELSE /\ Receive
            /\ nextId <= MaxItems
            /\ tasks' = [tasks EXCEPT ![t] =
                   [op |-> "enqueue", arg |-> CreateId(nextId), pc |-> "set", idx |-> 0,
                    snap |-> [storage EXCEPT
                                 !.queue = Push(@, NewItem(CreateId(nextId),
                                                  EnqueueMessage(url, filename)))]]]
            /\ nextId' = nextId + 1
            /\ lastResp' = NoResp
    /\ UNCHANGED <<storage, drainVars, hist>>
    /\ UNCHANGED <<poll, reply, popup>>

\* setState() lands; processQueue(); return { id }
EnqueueDone(t) ==
    /\ UNCHANGED life
    /\ tasks[t].op = "enqueue" /\ tasks[t].pc = "set"
    /\ CanCall(drains)
    /\ storage' = tasks[t].snap
    /\ LET pq == ProcessQueueCall(processingQueue, drains)
       IN  processingQueue' = pq.flag /\ drains' = pq.drains
    /\ tasks' = [tasks EXCEPT ![t] = IdleTask]
    /\ lastResp' = [op |-> "enqueue", arg |-> tasks[t].arg, res |-> "ok"]
    /\ live' = live \cup {tasks[t].arg}
    /\ pendOrder' = Append(pendOrder, tasks[t].arg)
    /\ issued' = Bump(issued, tasks[t].arg)
    /\ UNCHANGED <<nextId, tails, subs, handed, deliveredOK, sel, redelivered, removed, succeeded>>
    /\ UNCHANGED <<poll, reply, popup>>

----------------------------------------------------------------------------
(* retryItem *)

\* a retry that leaves the last failure message on the item
ResetItemKeepError(item) == [item EXCEPT !.status = "pending"]

\* item.status = 'pending'; delete item.error
ResetItem(item) == [item EXCEPT !.status = "pending", !.error = NoError]

\* a lookup that finds only items whose status is error
RetryIndexErrorOnly(queue, id) ==
    LET Match(e) == e.id = id /\ e.status = "error" IN FindIndex(queue, Match)

\* state.queue.find((entry) => entry.id === id)
RetryIndex(queue, id) == IndexOfId(queue, id)

\* the document retryItem writes when it read st
RetryApply(st, id) ==
    IF RetryIndex(st.queue, id) = 0 THEN st
    ELSE [st EXCEPT !.queue[RetryIndex(st.queue, id)] = ResetItem(@)]

Retry(t, id) ==
    /\ Free(t)
    /\ LET i == RetryIndex(storage.queue, id)
       IN  IF i = 0
           THEN /\ lastResp' = [op |-> "retry", arg |-> id, res |-> "Queue item not found"]
                /\ Receive
                /\ UNCHANGED tasks
           ELSE /\ Receive
                /\ tasks' = [tasks EXCEPT ![t] =
                       [op |-> "retry", arg |-> id, pc |-> "set", idx |-> i,
                        snap |-> RetryApply(storage, id)]]
                /\ lastResp' = NoResp
    /\ UNCHANGED <<storage, nextId, drainVars, hist>>
    /\ UNCHANGED <<poll, reply, popup>>

RetryDone(t) ==
    /\ UNCHANGED life
    /\ tasks[t].op = "retry" /\ tasks[t].pc = "set"
    /\ CanCall(drains)
    /\ storage' = tasks[t].snap
    /\ LET pq == ProcessQueueCall(processingQueue, drains)
       IN  processingQueue' = pq.flag /\ drains' = pq.drains
    /\ tasks' = [tasks EXCEPT ![t] = IdleTask]
    /\ lastResp' = [op |-> "retry", arg |-> tasks[t].arg, res |-> "ok"]
    /\ subs' = [subs EXCEPT ![tasks[t].arg] = 0]
    /\ pendOrder' = IF tasks[t].arg \in QueueIds(storage) \ PendingIds(storage)
                    THEN Append(Without(pendOrder, tasks[t].arg), tasks[t].arg)
                    ELSE pendOrder
    /\ UNCHANGED <<nextId, tails, live, handed, deliveredOK, sel, redelivered, issued, removed, succeeded>>
    /\ UNCHANGED <<poll, reply, popup>>

----------------------------------------------------------------------------
(* removeQueueItem *)

Remove(t, id) ==
    /\ Free(t)
    /\ LET i == IndexOfId(storage.queue, id)
       IN  IF i = 0
           THEN /\ lastResp' = [op |-> "removeQueue", arg |-> id, res |-> "Queue item not found"]
                /\ Receive
                /\ UNCHANGED tasks
           ELSE /\ Receive
                /\ tasks' = [tasks EXCEPT ![t] =
                       [op |-> "removeQueue", arg |-> id, pc |-> "set", idx |-> i,
                        snap |-> [storage EXCEPT !.queue = Splice(@, i)]]]
                /\ lastResp' = NoResp
    /\ UNCHANGED <<storage, nextId, drainVars, hist>>
    /\ UNCHANGED <<poll, reply, popup>>

RemoveDone(t) ==
    /\ UNCHANGED life
    /\ tasks[t].op = "removeQueue" /\ tasks[t].pc = "set"
    /\ storage' = tasks[t].snap
    /\ tasks' = [tasks EXCEPT ![t] = IdleTask]
    /\ lastResp' = [op |-> "removeQueue", arg |-> tasks[t].arg, res |-> "ok"]
    /\ live' = live \ {tasks[t].arg}
    /\ removed' = removed \cup {tasks[t].arg}
    /\ UNCHANGED <<nextId, drainVars, subs, handed, deliveredOK, pendOrder, sel, redelivered,
                   issued, succeeded>>
    /\ UNCHANGED <<poll, reply, popup>>

----------------------------------------------------------------------------
(* downloadReadyItem *)

\* getState(), findIndex, chrome.downloads.download(...) called
Deliver(t, id) ==
    /\ Free(t)
    /\ LET i == IndexOfId(storage.ready, id)
       IN  IF i = 0
           THEN /\ lastResp' = [op |-> "downloadReady", arg |-> id, res |-> "Download not found"]
                /\ Receive
                /\ UNCHANGED <<tasks, redelivered>>
           ELSE /\ Receive
                /\ tasks' = [tasks EXCEPT ![t] =
                       [op |-> "downloadReady", arg |-> id, pc |-> "download", idx |-> i,
                        snap |-> storage]]
                /\ redelivered' = redelivered \cup ({id} \cap deliveredOK)
                /\ lastResp' = NoResp
    /\ UNCHANGED <<storage, nextId, drainVars, live, subs, handed, deliveredOK, pendOrder, sel,
                   issued, removed, succeeded>>
    /\ UNCHANGED <<poll, reply, popup>>

\* a handler that goes on to its write whatever the download callback reports
AfterDownloadIgnoreError(task, r) ==
    [task EXCEPT !.pc = "set", !.snap.ready = Splice(@, task.idx)]

\* the handler after the download callback: lastError rejects and the handler
\* ends; else splice(entryIndex, 1) and setState() is issued
AfterDownload(task, r) ==
    IF r = "lastError"
    THEN IdleTask
    ELSE [task EXCEPT !.pc = "set", !.snap.ready = Splice(@, task.idx)]

DeliverDownloaded(t, r) ==
    /\ UNCHANGED life
    /\ tasks[t].op = "downloadReady" /\ tasks[t].pc = "download"
    /\ tasks' = [tasks EXCEPT ![t] = AfterDownload(tasks[t], r)]
    /\ lastResp' = IF tasks'[t] = IdleTask
                   THEN [op |-> "downloadReady", arg |-> tasks[t].arg,
                         res |-> "download failed"]
                   ELSE NoResp
    /\ handed' = IF r = "lastError" THEN handed ELSE Bump(handed, tasks[t].arg)
    /\ UNCHANGED <<storage, nextId, drainVars, live, subs, deliveredOK, redelivered,
                   pendOrder, sel, issued, removed, succeeded>>
    /\ UNCHANGED <<poll, reply, popup>>

\* setState() lands; return { downloadId }
DeliverDone(t) ==
    /\ UNCHANGED life
    /\ tasks[t].op = "downloadReady" /\ tasks[t].pc = "set"
    /\ storage' = tasks[t].snap
    /\ tasks' = [tasks EXCEPT ![t] = IdleTask]
    /\ lastResp' = [op |-> "downloadReady", arg |-> tasks[t].arg, res |-> "ok"]
    /\ deliveredOK' = deliveredOK \cup {tasks[t].arg}
    /\ live' = live \ {tasks[t].arg}
    /\ UNCHANGED <<nextId, drainVars, subs, handed, pendOrder, sel, redelivered, issued,
                   removed, succeeded>>
    /\ UNCHANGED <<poll, reply, popup>>

----------------------------------------------------------------------------
(* removeReadyItem *)

RemoveReady(t, id) ==
    /\ Free(t)
    /\ LET i == IndexOfId(storage.ready, id)
       IN  IF i = 0
           THEN /\ lastResp' = [op |-> "removeReady", arg |-> id, res |-> "Ready item not found"]
                /\ Receive
                /\ UNCHANGED tasks
           ELSE /\ Receive
                /\ tasks' = [tasks EXCEPT ![t] =
                       [op |-> "removeReady", arg |-> id, pc |-> "set", idx |-> i,
                        snap |-> [storage EXCEPT !.ready = Splice(@, i)]]]
                /\ lastResp' = NoResp
    /\ UNCHANGED <<storage, nextId, drainVars, hist>>
    /\ UNCHANGED <<poll, reply, popup>>

RemoveReadyDone(t) ==
    /\ UNCHANGED life
    /\ tasks[t].op = "removeReady" /\ tasks[t].pc = "set"
    /\ storage' = tasks[t].snap
    /\ tasks' = [tasks EXCEPT ![t] = IdleTask]
    /\ lastResp' = [op |-> "removeReady", arg |-> tasks[t].arg, res |-> "ok"]
    /\ live' = live \ {tasks[t].arg}
    /\ UNCHANGED <<nextId, drainVars, subs, handed, deliveredOK, pendOrder, sel, redelivered,
                   issued, removed, succeeded>>
    /\ UNCHANGED <<poll, reply, popup>>

----------------------------------------------------------------------------
(* chrome.storage.local failing inside a message handler; failures inside     *)
(* processQueue are not modelled                                              *)

\* the handler's getState() rejects before any lookup: the listener answers
\* with the error
StorageReadFails(op) ==
    /\ Receive
    /\ LowestIdleTask # 0
    /\ lastResp' = [op |-> op, arg |-> 0, res |-> StorageError]
    /\ UNCHANGED <<storage, nextId, tasks, drainVars, hist>>
    /\ UNCHANGED <<poll, reply, popup>>

\* the handler's setState() rejects: the handler throws at its await and the
\* listener answers with the error
StorageWriteFails(t) ==
    /\ UNCHANGED life
    /\ tasks[t].op # "idle" /\ tasks[t].pc = "set"
    /\ tasks' = [tasks EXCEPT ![t] = IdleTask]
    /\ lastResp' = [op |-> tasks[t].op, arg |-> tasks[t].arg, res |-> StorageError]
    /\ UNCHANGED <<storage, nextId, drainVars, hist>>
    /\ UNCHANGED <<poll, reply, popup>>

\* message types handleMessage has no case for
UnknownTypes == {"ping"}

\* a default case that returns normally
AnsweredOk == "ok"

\* default: throw new Error('Unknown message type')
UnknownType == "Unknown message type"

\* a message of an unknown type: handleMessage rejects and the listener answers
UnknownMessage(type) ==
    /\ Receive
    /\ lastResp' = [op |-> type, arg |-> 0, res |-> UnknownType]
    /\ UNCHANGED <<storage, nextId, tasks, drainVars, hist>>
    /\ UNCHANGED <<poll, reply, popup>>

----------------------------------------------------------------------------
(* processQueue: the drain loop *)

\* findLastIndex instead of findIndex
LastPending(queue) ==
    IF \E i \in 1..Len(queue) : IsPending(queue[i])
    THEN CHOOSE i \in 1..Len(queue) :
             IsPending(queue[i]) /\ \A j \in (i + 1)..Len(queue) : ~IsPending(queue[j])
    ELSE 0

\* state.queue.findIndex((item) => item.status === 'pending')
SelectIndex(queue) == FirstPending(queue)

\* item.status = 'processing'; item.error = undefined
MarkProcessing(item) == [item EXCEPT !.status = "processing", !.error = NoError]

\* a move to ready that leaves the item in the queue
MoveToReadyKeep(st, i, item, markdown) ==
    [queue |-> st.queue,
     ready |-> Append(st.ready, [id |-> item.id, url |-> item.url, filename |-> item.filename,
                                markdown |-> markdown])]

\* state.queue.splice(queueIndex, 1); state.ready.push({...})
MoveToReady(st, i, item, markdown) ==
    [queue |-> Splice(st.queue, i),
     ready |-> Append(st.ready, [id |-> item.id, url |-> item.url, filename |-> item.filename,
                                markdown |-> markdown])]

\* a catch block that puts the item back in line
MarkErrorPending(st, i, message) ==
    [st EXCEPT !.queue[i].status = "pending", !.queue[i].error = message]

\* state.queue[queueIndex].status = 'error'; .error = error.message
MarkError(st, i, message) ==
    [st EXCEPT !.queue[i].status = "error", !.queue[i].error = message]

\* pending ids of st that became pending before id did
Earlier(st, id) ==
    {y \in PendingIds(st) \ {id} :
        Pos(pendOrder, y) # 0 /\ Pos(pendOrder, id) # 0 /\ Pos(pendOrder, y) < Pos(pendOrder, id)}

\* pending ids of st that were created before id was
Older(st, id) == {y \in PendingIds(st) : y < id}

\* getState() served at the top of the loop: break into finally, or mark and setState()
DrainSelect(d) ==
    /\ Silent
    /\ drains[d].pc = "loop"
    /\ LET i == SelectIndex(storage.queue)
       IN  IF i = 0
           THEN /\ tails < MaxTails
                /\ processingQueue' = Release(processingQueue)
                /\ drains' = [drains EXCEPT ![d] = IdleDrain]
                /\ tails' = tails + 1
                /\ UNCHANGED sel
           ELSE /\ drains' = [drains EXCEPT ![d] =
                       [pc |-> "mark", item |-> MarkProcessing(storage.queue[i]),
                        snap |-> [storage EXCEPT !.queue[i] = MarkProcessing(@)],
                        error |-> NoError, endpoint |-> ""]]
                /\ sel' = [id |-> storage.queue[i].id,
                           earlier |-> Earlier(storage, storage.queue[i].id),
                           older |-> Older(storage, storage.queue[i].id)]
                /\ UNCHANGED <<processingQueue, tails>>
    /\ UNCHANGED <<storage, nextId, tasks,
                   live, subs, handed, deliveredOK, redelivered, pendOrder, issued, removed, succeeded>>
    /\ UNCHANGED <<poll, reply, popup>>

\* fetch(`${API_BASE_URL}/convert`, ...)
ConvertEndpoint(item) == "/convert"

\* setState() lands; fetchMarkdownForItem(item) sends the request
DrainMark(d) ==
    /\ Silent
    /\ drains[d].pc = "mark"
    /\ storage' = drains[d].snap
    /\ drains' = [drains EXCEPT ![d].pc = "fetch", ![d].snap = EmptyState,
                                ![d].endpoint = ConvertEndpoint(drains[d].item)]
    /\ subs' = Bump(subs, drains[d].item.id)
    /\ UNCHANGED <<processingQueue, nextId, tasks, tails,
                   live, handed, deliveredOK, pendOrder, sel, redelivered, issued, removed, succeeded>>
    /\ UNCHANGED <<poll, reply, popup>>

\* the request returns; getState(); findIndex by id; move to ready or mark error
DrainFetched(d, r) ==
    /\ Silent
    /\ drains[d].pc = "fetch"
    /\ LET i == IndexOfId(storage.queue, drains[d].item.id)
       IN  IF i = 0
           THEN drains' = [drains EXCEPT ![d] = [IdleDrain EXCEPT !.pc = "loop"]]
           ELSE drains' = [drains EXCEPT ![d].pc = "save",
                               ![d].error = IF r.ok THEN NoError ELSE r.body,
                               ![d].snap = IF r.ok
                                           THEN MoveToReady(storage, i, drains[d].item, r.body)
                                           ELSE MarkError(storage, i, r.body)]
    /\ succeeded' = IF r.ok /\ r.body # ""
                    THEN succeeded \cup {drains[d].item.id}
                    ELSE succeeded
    /\ UNCHANGED <<storage, processingQueue, nextId, tasks, tails, live, subs, handed,
                   deliveredOK, redelivered, pendOrder, sel, issued, removed>>
    /\ UNCHANGED <<poll, reply, popup>>

\* setState() lands; back to the top of the loop
DrainSave(d) ==
    /\ Silent
    /\ drains[d].pc = "save"
    /\ storage' = drains[d].snap
    /\ drains' = [drains EXCEPT ![d] = [IdleDrain EXCEPT !.pc = "loop"]]
    /\ UNCHANGED <<processingQueue, nextId, tasks, tails, hist>>
    /\ UNCHANGED <<poll, reply, popup>>

\* finally: getState() served; if (hasPending) processQueue()
DrainFinally ==
    /\ Silent
    /\ tails > 0
    /\ tails' = tails - 1
    /\ IF HasPending(storage)
       THEN /\ CanCall(drains)
            /\ LET pq == ProcessQueueCall(processingQueue, drains)
               IN  processingQueue' = pq.flag /\ drains' = pq.drains
       ELSE UNCHANGED <<processingQueue, drains>>
    /\ UNCHANGED <<storage, nextId, tasks, hist>>
    /\ UNCHANGED <<poll, reply, popup>>

\* a getState() or setState() of the loop rejects and nothing in the loop
\* catches it (after the request: the getState() of the catch block rejects as
\* well): the exception leaves the while loop through the finally block
DrainStorageFails(d) ==
    /\ Silent
    /\ drains[d].pc \in {"loop", "mark", "fetch", "save"}
    /\ tails < MaxTails
    /\ processingQueue' = Release(processingQueue)
    /\ drains' = [drains EXCEPT ![d] = IdleDrain]
    /\ tails' = tails + 1
    /\ UNCHANGED <<storage, nextId, tasks, hist>>
    /\ UNCHANGED <<poll, reply, popup>>

\* the getState() of the finally block rejects: no processQueue() follows
TailStorageFails ==
    /\ Silent
    /\ tails > 0
    /\ tails' = tails - 1
    /\ UNCHANGED <<storage, processingQueue, nextId, tasks, drains, hist>>
    /\ UNCHANGED <<poll, reply, popup>>

----------------------------------------------------------------------------
(* the worker's lifetime *)

\* chrome.runtime.onInstalled / onStartup: processQueue()
Startup ==
    /\ startups < NumStartListeners
    /\ lastResp' = NoResp
    /\ UNCHANGED <<ops, atRestart>>
    /\ CanCall(drains)
    /\ startups' = startups + 1
    /\ LET pq == ProcessQueueCall(processingQueue, drains)
       IN  processingQueue' = pq.flag /\ drains' = pq.drains
    /\ UNCHANGED <<storage, nextId, tasks, tails, hist>>
    /\ UNCHANGED <<poll, reply, popup>>

\* the worker is stopped and started again: memory is lost, storage is kept
Restart ==
    /\ ops < MaxOps /\ ops' = ops + 1 /\ lastResp' = NoResp
    /\ processingQueue' = FALSE
    /\ tasks' = [t \in TaskIds |-> IdleTask]
    /\ drains' = [d \in DrainIds |-> IdleDrain]
    /\ tails' = 0
    /\ startups' = 0
    /\ atRestart' = ProcessingIds(storage)
    /\ UNCHANGED <<storage, nextId, hist>>
    /\ UNCHANGED <<poll, reply, popup>>

----------------------------------------------------------------------------
(* buildError: the Error thrown for a response that is not ok *)

Statuses == {400, 404, 422, 500, 502, 503}
\* the body texts a failing service sends
Bodies ==
    {"", "Bad Gateway", "null", "{}", "{\"error\":\"x\"}", "{\"detail\":\"\"}",
     "{\"detail\":\"bad url\"}"}

Responses == [status : Statuses, text : Bodies]

\* response.json(): the parsed value, or a SyntaxError
ParseJson(text) ==
    CASE text = "{\"detail\":\"bad url\"}" -> [kind |-> "object", detail |-> "bad url"]
      [] text = "{\"detail\":\"\"}" -> [kind |-> "object", detail |-> ""]
      [] text = "{\"error\":\"x\"}" -> [kind |-> "object", detail |-> Undefined]
      [] text = "{}" -> [kind |-> "object", detail |-> Undefined]
      [] text = "null" -> [kind |-> "null", detail |-> Undefined]
      [] OTHER -> [kind |-> "SyntaxError", detail |-> Undefined]

\* if (x): neither undefined nor the empty string
Truthy(x) == x # Undefined /\ x # ""

HttpStatus(status) == "HTTP " \o ToString(status)

\* detail = `HTTP ${status}`; try { data = await cloned.json(); if (data?.detail)
\* detail = data.detail } catch { text = await response.text(); if (text) detail = text }
BuildError(response) ==
    LET data == ParseJson(response.text)
    IN  IF data.kind # "SyntaxError"
        THEN IF Truthy(data.detail) THEN data.detail ELSE HttpStatus(response.status)
        ELSE IF Truthy(response.text) THEN response.text ELSE HttpStatus(response.status)

NoReply == [response |-> [status |-> 0, text |-> ""], message |-> NoError]

\* fetchMarkdown gets a response that is not ok and throws buildError(response)
BuildErrorCall(response) ==
    /\ reply' = [response |-> response, message |-> BuildError(response)]
    /\ UNCHANGED <<storage, processingQueue, nextId, tasks, drains, tails, startups,
                   lastResp, ops, atRestart, hist, poll, popup>>

----------------------------------------------------------------------------
(* JobPoller: pollUntilComplete(itemId, jobId), one task for one job.  The    *)
(* worker under src/ has no status poller: this section follows section 4.4   *)
(* of the specification.                                                       *)

InitialInterval == 3000
IntervalIncrement == 2000
MaxInterval == 15000
MaxPolls == 8       \* status requests of one poller

JobNotFound == "job not found"
NotFoundMessages == {"not found", JobNotFound}
EmptyArtifact == "empty result"

\* GET /jobs/{jobId}: http is 0 when the request itself fails
NoStatus == [http |-> 0, status |-> "none", markdown |-> "", error |-> ""]
StatusResponses ==
    {[http |-> 404, status |-> "none", markdown |-> "", error |-> ""],
     [http |-> 500, status |-> "none", markdown |-> "", error |-> ""],
     NoStatus,
     [http |-> 200, status |-> "processing", markdown |-> "", error |-> ""],
     [http |-> 200, status |-> "ready", markdown |-> "md", error |-> ""],
     [http |-> 200, status |-> "ready", markdown |-> "", error |-> ""],
     [http |-> 200, status |-> "error", markdown |-> "", error |-> "conversion failed"]}

IdlePoll ==
    [pc |-> "idle", item |-> "none", error |-> NoError, markdown |-> "",
     interval |-> InitialInterval, fails |-> 0, waits |-> <<>>, requests |-> 0,
     last |-> NoStatus]

Min(a, b) == IF a <= b THEN a ELSE b

\* what a poller leaves alone
worker == <<storage, processingQueue, nextId, tasks, drains, tails, startups, lastResp,
            ops, atRestart, hist, reply, popup>>

\* 404: the job is unknown to the remote service
NeverNotFound(r) == FALSE
IsNotFound(r) == r.http = 404

IsTransient(r) == r.http # 200 /\ ~IsNotFound(r)

\* linear growth by a fixed increment, capped at the maximum
GrowUncapped(interval) == interval + IntervalIncrement
Grow(interval) == Min(interval + IntervalIncrement, MaxInterval)

\* growth resets whenever a status request succeeds
KeepInterval(interval) == interval
ResetInterval(interval) == InitialInterval

\* the submission was accepted: the item is processing and its poller starts
PollStart ==
    /\ poll.pc = "idle"
    /\ poll' = [poll EXCEPT !.pc = "request", !.item = "processing"]
    /\ UNCHANGED worker

\* remove(id) while the poller is active: the poller is not cancelled
PollItemRemoved ==
    /\ poll.pc \in {"request", "sleep"}
    /\ poll.item = "processing"
    /\ poll' = [poll EXCEPT !.item = "removed"]
    /\ UNCHANGED worker

\* step 1: the item no longer exists; exit without modifying state
PollExit ==
    /\ poll.pc = "request"
    /\ poll.item = "removed"
    /\ poll' = [poll EXCEPT !.pc = "exit"]
    /\ UNCHANGED worker

\* steps 2 and 3: one status request and what its outcome does
PollResponse(r) ==
    /\ poll.pc = "request"
    /\ poll.item = "processing"
    /\ poll.requests < MaxPolls
    /\ LET p == [poll EXCEPT !.requests = @ + 1, !.last = r]
       IN  poll' =
             IF IsNotFound(r)
             THEN [p EXCEPT !.pc = "exit", !.item = "error", !.error = JobNotFound]
             ELSE IF IsTransient(r)
             THEN [p EXCEPT !.pc = "sleep", !.fails = @ + 1,
                            !.waits = Append(@, [ms |-> poll.interval, after |-> "failure",
                                                 fails |-> poll.fails + 1]),
                            !.interval = Grow(@)]
             ELSE IF r.status = "ready" /\ r.markdown # ""
             THEN [p EXCEPT !.pc = "exit", !.item = "ready", !.markdown = r.markdown]
             ELSE IF r.status = "ready"
             THEN [p EXCEPT !.pc = "exit", !.item = "error", !.error = EmptyArtifact]
             ELSE IF r.status = "error"
             THEN [p EXCEPT !.pc = "exit", !.item = "error", !.error = r.error]
             ELSE [p EXCEPT !.pc = "sleep", !.fails = 0,
                            !.waits = Append(@, [ms |-> ResetInterval(poll.interval),
                                                 after |-> "success", fails |-> 0]),
                            !.interval = ResetInterval(@)]
    /\ UNCHANGED worker

\* the timed wait is over
PollWake ==
    /\ poll.pc = "sleep"
    /\ poll' = [poll EXCEPT !.pc = "request"]
    /\ UNCHANGED worker

----------------------------------------------------------------------------
(* popup.js: the click handler of the queue button, for the tab's url *)

MaxClicks == 2      \* click handlers in flight at once
ClickIds == 1..MaxClicks

\* activeTab.url
TabUrl == "u1"

IdlePopup ==
    [clicks |-> [c \in ClickIds |-> "idle"], disabled |-> FALSE, sent |-> 0, done |-> 0]

LowestIdleClick ==
    IF \E c \in ClickIds : popup.clicks[c] = "idle"
    THEN CHOOSE c \in ClickIds :
             popup.clicks[c] = "idle" /\ \A e \in 1..(c - 1) : popup.clicks[e] # "idle"
    ELSE 0

\* (state.queue || []).some((item) => item.url === activeTab.url), and the same for ready
AlreadyQueued(st, url) == \E i \in 1..Len(st.queue) : st.queue[i].url = url
AlreadyReady(st, url) == \E i \in 1..Len(st.ready) : st.ready[i].url = url

\* what the popup leaves alone
background == <<storage, processingQueue, nextId, tasks, drains, tails, startups, lastResp,
                ops, atRestart, hist, poll, reply>>

\* a click on the enabled button: the handler starts and awaits chrome.storage.local.get
Click(c) ==
    /\ c = LowestIdleClick
    /\ ~popup.disabled
    /\ popup' = [popup EXCEPT !.clicks[c] = "get"]
    /\ UNCHANGED background

\* the state is served: already queued or ready ends the handler; otherwise
\* queueButton.disabled = true and prepareForContentType starts
ClickRead(c) ==
    /\ popup.clicks[c] = "get"
    /\ IF AlreadyQueued(storage, TabUrl) \/ AlreadyReady(storage, TabUrl)
       THEN popup' = [popup EXCEPT !.clicks[c] = "idle"]
       ELSE popup' = [popup EXCEPT !.clicks[c] = "prepare", !.disabled = TRUE]
    /\ UNCHANGED background

\* prepareUI: cookies, capture and settings are there; sendMessage({type: 'enqueue', ...})
ClickSend(c) ==
    /\ popup.clicks[c] = "prepare"
    /\ popup' = [popup EXCEPT !.clicks[c] = "sent", !.sent = @ + 1]
    /\ UNCHANGED background

\* responses the worker has sent
Answered == ops - Cardinality({t \in TaskIds : tasks[t].op # "idle"})

\* the response arrives: finally { queueButton.disabled = false }
ClickDone(c) ==
    /\ popup.clicks[c] = "sent"
    /\ popup.done < Answered
    /\ popup' = [popup EXCEPT !.clicks[c] = "idle", !.done = @ + 1, !.disabled = FALSE]
    /\ UNCHANGED background

\* the worker receives an enqueue message the popup has sent
PopupEnqueue(t) ==
    /\ ops < popup.sent
    /\ Enqueue(t, TabUrl, CHOOSE filename \in Filenames : TRUE)

----------------------------------------------------------------------------

Init ==
    /\ storage \in PersistedDocs
    /\ processingQueue = FALSE
    /\ nextId = Len(storage.queue) + Len(storage.ready) + 1
    /\ tasks = [t \in TaskIds |-> IdleTask]
    /\ drains = [d \in DrainIds |-> IdleDrain]
    /\ tails = 0
    /\ startups = 0
    /\ lastResp = NoResp
    /\ ops = 0
    /\ live = QueueIds(storage) \cup ReadyIds(storage)
    /\ subs = [i \in Ids |-> IF i \in QueueIds(storage) \cup ReadyIds(storage) THEN 1 ELSE 0]
    /\ handed = [i \in Ids |-> 0]
    /\ deliveredOK = {}
    /\ redelivered = {}
    /\ pendOrder = <<>>
    /\ sel = NoSel
    /\ atRestart = {}
    /\ issued = [i \in Ids |-> IF i \in QueueIds(storage) \cup ReadyIds(storage) THEN 1 ELSE 0]
    /\ removed = {}
    /\ succeeded = {}
    /\ poll = IdlePoll
    /\ reply = NoReply
    /\ popup = IdlePopup

Next ==
    \/ \E t \in TaskIds, url \in Urls, filename \in Filenames : Enqueue(t, url, filename)
    \/ \E t \in TaskIds : EnqueueDone(t)
    \/ \E t \in TaskIds, id \in Ids : Retry(t, id)
    \/ \E t \in TaskIds : RetryDone(t)
    \/ \E t \in TaskIds, id \in Ids : Remove(t, id)
    \/ \E t \in TaskIds : RemoveDone(t)
    \/ \E t \in TaskIds, id \in Ids : Deliver(t, id)
    \/ \E t \in TaskIds, r \in DownloadResults : DeliverDownloaded(t, r)
    \/ \E t \in TaskIds : DeliverDone(t)
    \/ \E t \in TaskIds, id \in Ids : RemoveReady(t, id)
    \/ \E t \in TaskIds : RemoveReadyDone(t)
    \/ \E d \in DrainIds : DrainSelect(d)
    \/ \E d \in DrainIds : DrainMark(d)
    \/ \E d \in DrainIds, r \in FetchResults : DrainFetched(d, r)
    \/ \E d \in DrainIds : DrainSave(d)
    \/ DrainFinally
    \/ Startup

Spec == Init /\ [][Next]_vars

NextRestart == Next \/ Restart

SpecRestart == Init /\ [][NextRestart]_vars

\* the worker with a chrome.storage.local whose calls can reject
NextStorage ==
    \/ Next
    \/ \E op \in Handlers : StorageReadFails(op)
    \/ \E t \in TaskIds : StorageWriteFails(t)

SpecStorage == Init /\ [][NextStorage]_vars

\* the worker with the popup of one tab as its only sender
NextPopup ==
    \/ \E c \in ClickIds : Click(c)
    \/ \E c \in ClickIds : ClickRead(c)
    \/ \E c \in ClickIds : ClickSend(c)
    \/ \E c \in ClickIds : ClickDone(c)
    \/ \E t \in TaskIds : PopupEnqueue(t)
    \/ \E t \in TaskIds : EnqueueDone(t)
    \/ \E d \in DrainIds : DrainSelect(d)
    \/ \E d \in DrainIds : DrainMark(d)
    \/ \E d \in DrainIds, r \in FetchResults : DrainFetched(d, r)
    \/ \E d \in DrainIds : DrainSave(d)
    \/ DrainFinally
    \/ Startup

SpecPopup == Init /\ [][NextPopup]_vars

\* the worker with senders of messages of any type
NextMessages ==
    \/ Next
    \/ \E type \in UnknownTypes : UnknownMessage(type)

SpecMessages == Init /\ [][NextMessages]_vars

\* the worker with a chrome.storage.local whose calls can reject under the drain
NextDrainStorage ==
    \/ Next
    \/ \E d \in DrainIds : DrainStorageFails(d)
    \/ TailStorageFails

SpecDrainStorage == Init /\ [][NextDrainStorage]_vars

\* the worker with a conversion service that can answer with an empty artifact
NextArtifact ==
    \/ Next
    \/ \E d \in DrainIds, r \in EmptyResults : DrainFetched(d, r)

SpecArtifact == Init /\ [][NextArtifact]_vars

\* the Error built for each response that is not ok
NextError == \E response \in Responses : BuildErrorCall(response)

SpecError == Init /\ [][NextError]_vars

\* one status poller from its start to its exit
NextPoller ==
    \/ PollStart
    \/ PollItemRemoved
    \/ PollExit
    \/ \E r \in StatusResponses : PollResponse(r)
    \/ PollWake

SpecPoller == Init /\ [][NextPoller]_vars

----------------------------------------------------------------------------
(* Properties *)

ActiveDrains == {d \in DrainIds : drains[d].pc # "idle"}
Submitting == {d \in DrainIds : drains[d].pc = "fetch"}

\* nothing is suspended: no handler, no drain, no finally block
Quiescent ==
    /\ \A t \in TaskIds : tasks[t].op = "idle"
    /\ ActiveDrains = {}
    /\ tails = 0

Occurrences(seq, id) == Cardinality({i \in 1..Len(seq) : seq[i].id = id})

\* C1: an item that was enqueued and has not been removed, delivered or
\* discarded is in the persisted queue or in the persisted ready list.
C1_NoItemLost == \A id \in live : id \in QueueIds(storage) \cup ReadyIds(storage)

\* C2: an item is submitted at most once after its enqueue and at most once
\* after each retry.
C2_SubmittedOncePerRetry == \A id \in Ids : subs[id] <= 1

\* C3: at most one processQueue invocation is inside the drain loop, and while
\* one is, the guard is set, so a second invocation returns at once and submits
\* nothing.
C3_SingleFlight ==
    /\ Cardinality(ActiveDrains) <= 1
    /\ ActiveDrains # {} => processingQueue

\* a second enqueue has just called processQueue() while the drain was
\* submitting the first item
C3_Witness ==
    /\ lastResp.op = "enqueue" /\ lastResp.res = "ok"
    /\ \E d \in DrainIds : drains[d].pc = "fetch" /\ drains[d].item.id = 1
    /\ 2 \in PendingIds(storage)

\* C4: at most one submission call is outstanding at any moment.
C4_OneSubmission == Cardinality(Submitting) <= 1

\* an item is being submitted while another pending item waits for its turn
C4_Witness ==
    /\ Submitting # {}
    /\ \E d \in Submitting : PendingIds(storage) \ {drains[d].item.id} # {}

\* C5: a pending item is never left unattended: when nothing is running any
\* more, no item of the persisted queue is pending.
C5_NoPendingUnattended == Quiescent => ~HasPending(storage)

\* C6: after a restart, once a start-up drain has run to its end and no message
\* has arrived, no item that was processing at the restart is still processing.
C6_ProcessingRecovered ==
    (Quiescent /\ startups \in 1..NumStartListeners) => atRestart \cap ProcessingIds(storage) = {}

\* C7: after a restart, once both start-up listeners have run their drain to the
\* end and no message has arrived, every item that was processing at the restart
\* is in the ready list exactly once.
C7_ResumedExactlyOnce ==
    (Quiescent /\ startups = NumStartListeners) =>
        \A id \in atRestart : Occurrences(storage.ready, id) = 1

\* C8: once a deliver(id) has returned, the persisted ready list has no entry
\* with that id and no deliver(id) started later finds one.
C8_DeliveredIsGone ==
    \A id \in deliveredOK : id \notin ReadyIds(storage) /\ id \notin redelivered

\* C9: the artifact of a ready entry is handed to the download consumer at most
\* once.
C9_DeliveredOnce == \A id \in Ids : handed[id] <= 1

\* C10 (as stated): the drain selects the item that became pending first, by
\* enqueue or by retry, among the pending items of the state it read.
C10_PendingOrder == sel.earlier = {}

\* C10 (amended): the drain selects the item that was enqueued first among the
\* pending items of the state it read; a retry does not move an item.
C10_EnqueueOrder == sel.older = {}

\* the drain selected an item although another pending item had become pending
\* before it
C10_Witness == sel.id # 0 /\ sel.earlier # {} /\ \A y \in sel.earlier : sel.id < y

C12_UniqueIds ==
    Cardinality(QueueIds(storage) \cup ReadyIds(storage))
        = Len(storage.queue) + Len(storage.ready)

\* an item that a stale write had put back into the queue has been submitted a
\* second time and moved to ready again, next to another queued item
C12_Witness ==
    \E id \in ReadyIds(storage) : subs[id] = 2 /\ QueueIds(storage) # {}

\* C13: an enqueue without a url is rejected before any state is read or
\* written: the step that answers "Missing URL" creates no item, takes no id,
\* leaves the persisted state alone and starts no drain, and no enqueue that
\* goes on to create an item has an empty url.
C13_MissingUrlRejected ==
    [][ /\ lastResp'.res = "Missing URL" =>
               UNCHANGED <<storage, nextId, tasks, processingQueue, drains, tails, issued>>
        /\ \A t \in TaskIds :
               (tasks[t].op = "idle" /\ tasks'[t].op = "enqueue") =>
                   tasks'[t].snap.queue[Len(tasks'[t].snap.queue)].url # "" ]_vars

\* an enqueue without a url has just been rejected while the queue held an item
C13_Witness == lastResp.res = "Missing URL" /\ storage.queue # <<>>

\* C14: a retry(id) that answers ok while the item is in the persisted queue
\* leaves that item pending without an error, leaves every other queue item and
\* the ready list as they were, and has called processQueue().
C14_RetryFrame ==
    [][ (lastResp'.op = "retry" /\ lastResp'.res = "ok"
             /\ lastResp'.arg \in QueueIds(storage)) =>
            /\ storage'.ready = storage.ready
            /\ Len(storage'.queue) = Len(storage.queue)
            /\ \A i \in 1..Len(storage.queue) :
                   IF storage.queue[i].id = lastResp'.arg
                   THEN storage'.queue[i] = ResetItem(storage.queue[i])
                   ELSE storage'.queue[i] = storage.queue[i]
            /\ processingQueue' ]_vars

\* C15: retry(id) finds the item whatever its status, so it answers not found
\* only for an id that is not in the queue it read; and a second retry(id)
\* applied to the document the first one wrote finds the item and writes the
\* same document.
C15_RetryAnyStatus ==
    [][ /\ (lastResp'.op = "retry" /\ lastResp'.res = "Queue item not found") =>
               lastResp'.arg \notin QueueIds(storage)
        /\ \A t \in TaskIds :
               (tasks[t].op = "idle" /\ tasks'[t].op = "retry") =>
                   /\ RetryIndex(tasks'[t].snap.queue, tasks'[t].arg) # 0
                   /\ RetryApply(tasks'[t].snap, tasks'[t].arg) = tasks'[t].snap ]_vars

\* a retry has answered ok for an item the drain is submitting, an item that
\* was pending or processing and not error when the retry read it
C15_Witness ==
    /\ lastResp.op = "retry" /\ lastResp.res = "ok"
    /\ \E d \in DrainIds : drains[d].pc = "fetch" /\ drains[d].item.id = lastResp.arg
    /\ lastResp.arg \in PendingIds(storage)

\* C16: when the submission of an item finishes after a remove(id) for that
\* item has answered ok, the drain's write for it changes nothing in the
\* persisted state.
C16_RemovedStaysGone ==
    [][ \A d \in DrainIds :
            (drains[d].pc = "save" /\ drains'[d].pc # "save"
                 /\ drains[d].item.id \in removed) =>
                storage' = storage ]_vars

\* the step receives the message op(id) and its getState() is served: it answers
\* at once or suspends a handler
Received(op, id) ==
    \/ /\ tasks' = tasks /\ lastResp'.op = op /\ lastResp'.arg = id
       /\ lastResp'.res # StorageError
    \/ \E t \in TaskIds : tasks[t].op = "idle" /\ tasks'[t].op = op /\ tasks'[t].arg = id

\* the step answers op(id) with the error msg and changes neither the persisted
\* state nor the drain
Refused(op, id, msg) ==
    /\ lastResp' = [op |-> op, arg |-> id, res |-> msg]
    /\ UNCHANGED <<storage, tasks, processingQueue, drains, tails>>

\* C17: retry(id) and remove(id) for an id that is not in the queue, and
\* removeReady(id) for an id that is not in the ready list, answer not found,
\* leave the persisted state unchanged and start no drain.
C17_NotFound ==
    [][ \A id \in Ids :
            /\ (Received("retry", id) /\ id \notin QueueIds(storage)) =>
                   Refused("retry", id, "Queue item not found")
            /\ (Received("removeQueue", id) /\ id \notin QueueIds(storage)) =>
                   Refused("removeQueue", id, "Queue item not found")
            /\ (Received("removeReady", id) /\ id \notin ReadyIds(storage)) =>
                   Refused("removeReady", id, "Ready item not found") ]_vars

\* a retry for an id that is not in the queue has been refused while the queue
\* held another item and no drain was running
C17_Witness ==
    /\ lastResp.op = "retry" /\ lastResp.res = "Queue item not found"
    /\ storage.queue # <<>> /\ ~processingQueue /\ Quiescent

\* C18: when the submission of an item was rejected, the drain's next write
\* leaves the item in the queue with status error and the message of the
\* rejection, creates no ready entry for it, submits nothing again in that step
\* and puts the drain back at the top of its loop.
C18_RejectedMarkedError ==
    [][ \A d \in DrainIds :
            (drains[d].pc = "save" /\ drains[d].error # NoError /\ drains'[d].pc # "save") =>
                /\ \E i \in 1..Len(storage'.queue) :
                       /\ storage'.queue[i].id = drains[d].item.id
                       /\ storage'.queue[i].status = "error"
                       /\ storage'.queue[i].error = drains[d].error
                /\ drains[d].item.id \notin ReadyIds(storage')
                /\ subs' = subs
                /\ drains'[d].pc = "loop" ]_vars

\* the first item is in the queue with status error, submitted once, and the
\* drain is submitting the second item
C18_Witness ==
    /\ \E i \in 1..Len(storage.queue) :
           storage.queue[i].id = 1 /\ storage.queue[i].status = "error"
    /\ subs[1] = 1
    /\ \E d \in DrainIds : drains[d].pc = "fetch" /\ drains[d].item.id = 2

\* C19: an item persisted with status error since its last submission stays in
\* the persisted queue, with the same status and message, across every step
\* other than the completion of a retry(id) or a remove(id) for it.
C19_ErrorItemKept ==
    [][ \A i \in 1..Len(storage.queue) :
            (/\ storage.queue[i].status = "error"
             /\ subs[storage.queue[i].id] > 0
             /\ ~(/\ lastResp'.op \in {"retry", "removeQueue"}
                  /\ lastResp'.res = "ok"
                  /\ lastResp'.arg = storage.queue[i].id)) =>
                \E j \in 1..Len(storage'.queue) : storage'.queue[j] = storage.queue[i] ]_vars

\* the handler is past its download and waits for its setState()
DownloadStarted(t) == tasks[t].op = "downloadReady" /\ tasks[t].pc = "set"

\* C20: when a handler answers with a storage error, the persisted state is
\* unchanged, no drain was started, and the handler that failed had not handed
\* an artifact to chrome.downloads.
C20_StorageErrorNotApplied ==
    [][ lastResp'.res = StorageError =>
            /\ UNCHANGED <<storage, processingQueue, drains>>
            /\ \A t \in TaskIds :
                   (tasks[t].op # "idle" /\ tasks'[t].op = "idle") => ~DownloadStarted(t) ]_vars

\* C21: every entry of the persisted ready list has a non-empty markdown
\* string: a conversion that succeeds with an empty artifact is not moved to
\* ready.
C21_ReadyNonEmpty == \A i \in 1..Len(storage.ready) : storage.ready[i].markdown # ""

\* C22: an item whose conversion request returned a non-empty artifact, and
\* which has not been removed, delivered or discarded, is absent from the
\* queue and is exactly one entry of the ready list, carrying that artifact,
\* once every handler and every drain has finished.
C22_SuccessReachesReady ==
    Quiescent =>
        \A id \in succeeded \cap live :
            /\ id \notin QueueIds(storage)
            /\ Occurrences(storage.ready, id) = 1
            /\ \A i \in 1..Len(storage.ready) :
                   storage.ready[i].id = id => storage.ready[i].markdown = "md"

\* C23: a 404 answer to a status request ends the poller: the item is marked
\* error with a message that contains "not found", and the poller sends no
\* further status request.
C23_NotFoundIsTerminal ==
    [][ poll'.last.http = 404 =>
            /\ poll'.pc = "exit"
            /\ poll'.item = "error"
            /\ poll'.error \in NotFoundMessages
            /\ (poll.last.http = 404 => poll'.requests = poll.requests) ]_vars

\* a 404 has ended a poller that had polled before
C23_Witness == poll.last.http = 404 /\ poll.pc = "exit" /\ poll.requests > 1

\* C24: a request that fails with a network failure or an error status other
\* than 404 does not mark the item error: the write that follows the failure
\* leaves the item, when it is still queued, processing.
C24_FailureKeepsProcessing ==
    [][ \A d \in DrainIds :
            (drains[d].pc = "save" /\ drains[d].error # NoError /\ drains'[d].pc # "save") =>
                \A i \in 1..Len(storage'.queue) :
                    storage'.queue[i].id = drains[d].item.id =>
                        storage'.queue[i].status = "processing" ]_vars

\* C25 (as stated): the waits of one poller never decrease and never exceed the
\* maximum interval, whatever the status requests return.
C25_WaitsNonDecreasing ==
    \A i \in 1..Len(poll.waits) :
        /\ poll.waits[i].ms <= MaxInterval
        /\ i > 1 => poll.waits[i - 1].ms <= poll.waits[i].ms

\* C25 (amended): no wait exceeds the maximum interval, and the wait after a
\* failed status request is at least the wait before it; the wait after a
\* successful status request is the initial interval again, which can be less.
C25_WaitsGrowUntilSuccess ==
    \A i \in 1..Len(poll.waits) :
        /\ poll.waits[i].ms <= MaxInterval
        /\ (i > 1 /\ poll.waits[i].after = "failure") =>
               poll.waits[i - 1].ms <= poll.waits[i].ms
        /\ (i > 1 /\ poll.waits[i].after = "success") =>
               poll.waits[i].ms <= poll.waits[i - 1].ms

\* a poller has waited the maximum interval and, after a success, a shorter one
C25_Witness ==
    \E i \in 2..Len(poll.waits) :
        /\ poll.waits[i - 1].ms = MaxInterval
        /\ poll.waits[i].after = "success"
        /\ poll.waits[i].ms < poll.waits[i - 1].ms

\* C26 (as stated): the wait after the k-th consecutive failed status request
\* is min(initial + k * increment, maximum).
C26_WaitAfterFailures ==
    \A i \in 1..Len(poll.waits) :
        poll.waits[i].ms =
            Min(InitialInterval + poll.waits[i].fails * IntervalIncrement, MaxInterval)

\* C26 (amended): the wait after the k-th consecutive failed status request is
\* min(initial + (k - 1) * increment, maximum), the interval kept for the next
\* failure is min(initial + k * increment, maximum), and the wait after a
\* successful status request is the initial interval.
C26_LinearBackoff ==
    /\ poll.interval = Min(InitialInterval + poll.fails * IntervalIncrement, MaxInterval)
    /\ \A i \in 1..Len(poll.waits) :
           poll.waits[i].ms =
               IF poll.waits[i].fails = 0
               THEN InitialInterval
               ELSE Min(InitialInterval + (poll.waits[i].fails - 1) * IntervalIncrement,
                        MaxInterval)

\* a poller at the initial interval again after two failures, then failing anew
C26_Witness ==
    \E i \in 3..(Len(poll.waits) - 1) :
        /\ poll.waits[i - 1].fails = 2
        /\ poll.waits[i].fails = 0
        /\ poll.waits[i + 1].fails = 1

\* C27: the Error built for a response that is not ok carries the detail of a
\* JSON body that has one, otherwise the raw text of the body when it is not
\* empty (also for a JSON body without a detail), otherwise HTTP <status>.
C27_ErrorMessage ==
    reply # NoReply =>
        LET data == ParseJson(reply.response.text)
        IN  reply.message =
                IF Truthy(data.detail)
                THEN data.detail
                ELSE IF reply.response.text # ""
                THEN reply.response.text
                ELSE HttpStatus(reply.response.status)

\* C28: a removeReady(id) that answers ok while the entry is in the persisted
\* ready list removes exactly that entry, hands nothing to the download
\* consumer and leaves the queue and every other ready entry as they were.
C28_RemoveReadyFrame ==
    [][ (lastResp'.op = "removeReady" /\ lastResp'.res = "ok"
             /\ lastResp'.arg \in ReadyIds(storage)) =>
            /\ storage'.queue = storage.queue
            /\ storage'.ready = Splice(storage.ready, IndexOfId(storage.ready, lastResp'.arg))
            /\ handed' = handed ]_vars

\* C29: no operation writes a document it read before it was suspended on a
\* network or download call: the document deliver(id) prepares when the
\* download has returned is the state persisted at that moment without the
\* entry, so that its write undoes nothing that completed during the download.
C29_RereadBeforeWrite ==
    [][ \A t \in TaskIds :
            (tasks[t].op = "downloadReady" /\ tasks[t].pc = "download"
                 /\ tasks'[t].pc = "set") =>
                /\ tasks'[t].snap.queue = storage.queue
                /\ tasks'[t].snap.ready =
                       SelectSeq(storage.ready, LAMBDA e : e.id # tasks[t].arg) ]_vars

\* C30: the ready entry written for a converted item has the item's id and
\* url, the artifact, and the filename the item was enqueued with; the move
\* takes that item out of the queue and leaves every other queue item and
\* every other ready entry as they were.
C30_MoveToReadyFrame ==
    [][ \A d \in DrainIds :
            (drains[d].pc = "save" /\ drains[d].error = NoError /\ drains'[d].pc # "save") =>
                LET item == drains[d].item
                    entry == storage'.ready[Len(storage'.ready)]
                IN  /\ storage'.ready = Append(storage.ready, entry)
                    /\ entry.id = item.id /\ entry.url = item.url
                    /\ entry.filename = item.filename
                    /\ entry.markdown \in {r.body : r \in {f \in FetchResults : f.ok}}
                    /\ storage'.queue = SelectSeq(storage.queue, LAMBDA e : e.id # item.id) ]_vars

\* C31: a persisted queue item carries an error message only while its status
\* is error: marking it processing and retrying it both clear the message.
C31_ErrorOnlyWhenError ==
    \A i \in 1..Len(storage.queue) :
        storage.queue[i].error # NoError => storage.queue[i].status = "error"

\* the only message so far, a retry of the item persisted as failed, has
\* returned: the item is pending and carries no message
C31_Witness ==
    /\ ops = 1
    /\ lastResp.op = "retry" /\ lastResp.res = "ok"
    /\ \E i \in 1..Len(storage.queue) :
           /\ storage.queue[i].id = lastResp.arg
           /\ storage.queue[i].status = "pending"
           /\ storage.queue[i].error = NoError

\* C32: the item an enqueue has just persisted carries the content-type
\* descriptor and the cookies of the request, and the request a drain has in
\* flight for an item went to the endpoint of that item's content type.
C32_ContentTypeKept ==
    /\ (lastResp.op = "enqueue" /\ lastResp.res = "ok") =>
           \A i \in 1..Len(storage.queue) :
               storage.queue[i].id = lastResp.arg =>
                   /\ storage.queue[i].kind = ContentTypeFor(storage.queue[i].url)
                   /\ "cookies" \in DOMAIN storage.queue[i]
    /\ \A d \in DrainIds :
           drains[d].pc = "fetch" =>
               drains[d].endpoint = EndpointOf(ContentTypeFor(drains[d].item.url))

\* C33: overlapping enqueue calls both take effect: when an enqueue returns
\* its id, the persisted queue holds the new item and still holds every item
\* it held before that write, those of enqueues that returned in between
\* included.
C33_BothEnqueuesKept ==
    [][ (lastResp'.op = "enqueue" /\ lastResp'.res = "ok") =>
            QueueIds(storage) \cup {lastResp'.arg} \subseteq QueueIds(storage') ]_vars

\* C34: at most one item of the persisted queue has status processing.
C34_OneProcessing ==
    Cardinality({i \in 1..Len(storage.queue) : storage.queue[i].status = "processing"}) <= 1

\* C35: when the download of a ready artifact fails, the handler ends there:
\* deliver(id) answers with the download error and the persisted state is as
\* it was, so an entry that is in the ready list stays there for a later
\* deliver(id).
C35_FailedDownloadKeepsEntry ==
    [][ \A t \in TaskIds :
            (tasks[t].op = "downloadReady" /\ tasks[t].pc = "download"
                 /\ tasks'[t] # tasks[t] /\ handed' = handed) =>
                /\ tasks'[t] = IdleTask
                /\ lastResp' = [op |-> "downloadReady", arg |-> tasks[t].arg,
                                res |-> "download failed"]
                /\ storage' = storage ]_vars

\* a deliver has just failed on its download and the entry is still ready
C35_Witness ==
    /\ lastResp.op = "downloadReady" /\ lastResp.res = "download failed"
    /\ lastResp.arg \in ReadyIds(storage)
    /\ handed[lastResp.arg] = 0

\* C36: the drain guard is released by every end of a drain, the end by an
\* exception from a storage call included: the guard is never set while no
\* processQueue invocation is inside the loop, so the next processQueue()
\* starts a drain.
C36_GuardReleased == processingQueue => ActiveDrains # {}

\* after a single message, a drain has been ended by a storage exception in the
\* middle of an item: the item is persisted as processing, no drain is running
\* and the guard is released
C36_Witness ==
    /\ ops = 1
    /\ ProcessingIds(storage) # {}
    /\ ActiveDrains = {}
    /\ ~processingQueue

\* handlers that the step suspends, and handlers that the step ends
Suspended == {t \in TaskIds : tasks[t].op = "idle" /\ tasks'[t].op # "idle"}
Ended == {t \in TaskIds : tasks[t].op # "idle" /\ tasks'[t].op = "idle"}

\* C37: every message gets exactly one response: the step that receives it
\* either answers it or suspends one handler for it, a handler that ends
\* answers for its own message, and nothing else answers; a message of an
\* unknown type is answered with an error, and that step changes neither the
\* persisted state nor the drain.
C37_OneResponse ==
    [][ /\ ops' = ops + 1 =>
               /\ Ended = {}
               /\ \/ lastResp' # NoResp /\ Suspended = {}
                  \/ lastResp' = NoResp /\ Cardinality(Suspended) = 1
        /\ ops' = ops =>
               /\ Suspended = {}
               /\ Cardinality(Ended) <= 1
               /\ lastResp' # NoResp <=> Ended # {}
        /\ \A t \in Ended :
               /\ lastResp'.op = tasks[t].op /\ lastResp'.arg = tasks[t].arg
               /\ lastResp'.res # "none"
        /\ lastResp'.op \in UnknownTypes =>
               /\ lastResp'.res \notin {"ok", "none"}
               /\ UNCHANGED <<storage, tasks, processingQueue, drains, tails>> ]_vars

\* a message of an unknown type has been answered while a handler was
\* suspended and an item was in the queue
C37_Witness ==
    /\ lastResp.op \in UnknownTypes
    /\ \E t \in TaskIds : tasks[t].op # "idle"
    /\ storage.queue # <<>>

\* ids of the persisted entries, queued or ready, that have the url
IdsWithUrl(url) ==
    {storage.queue[i].id : i \in {j \in 1..Len(storage.queue) : storage.queue[j].url = url}}
        \cup {storage.ready[i].id : i \in {j \in 1..Len(storage.ready) : storage.ready[j].url = url}}

\* C38: the popup never enqueues a url that is queued or ready already: the
\* persisted state never holds two items, queued or ready, with the tab's url.
C38_NoDuplicateUrl == Cardinality(IdsWithUrl(TabUrl)) <= 1

====
